---------------------------- MODULE Spec2Model ----------------------------
(***************************************************************************)
(* Sign-In-With-Ethereum authentication (NextAuth credentials provider),   *)
(* session issuance and the profile store of base-buzz/auth-test.          *)
(*                                                                         *)
(*   src/src/app/api/auth/[...nextauth]/route.ts   authorize, callbacks,   *)
(*                                                 GET /api/profile        *)
(*   src/unnamed/part_006                          Home.handleSignIn,      *)
(*                                                 handleSignOut           *)
(*   src/unnamed/part_010                          middleware (route guard)*)
(*   src/src/app/api/users/[handle]/route.ts       GET /api/users/[handle] *)
(***************************************************************************)
EXTENDS Integers, Sequences, FiniteSets, TLC

(***************************************************************************)
(* Bounds of the model.                                                    *)
(***************************************************************************)
\* sign-in submissions (honest and hostile together) in one behaviour
MaxSubmits == 2
\* profile fetches one browser issues
MaxFetches == 2
\* seconds of each session lifetime at which the clock is looked at
MaxLate == 1

\* browsers (each holds its own CSRF cookie and session cookie)
Clients == { 1, 2 }

(***************************************************************************)
(* Values.  An absent / null value is the empty sequence and a present     *)
(* value v is <<v>>, so that JavaScript's null and a string stay apart.    *)
(***************************************************************************)
Null == << >>

Some(v) == << v >>

\* Ethereum addresses as character sequences; AddrA and AddrB end in the
\* same six characters, AddrC does not.
AddrA == << "0", "x", "A", "1", "c", "0", "f", "f", "e", "e" >>

AddrB == << "0", "x", "B", "2", "c", "0", "f", "f", "e", "e" >>

AddrC == << "0", "x", "C", "3", "d", "e", "c", "a", "f", "e" >>

Addresses == { AddrA, AddrB, AddrC }

\* what signature recovery yields when the signature was made over other bytes
GarbageAddr == << "0", "x", "?", "?" >>

\* host of NEXTAUTH_URL, the deployment's own domain, and a foreign one
ExpectedDomain == "app.example"

Domains == { ExpectedDomain, "evil.example" }

\* CSRF tokens the nonce issuer can hand out: one per browser
Nonces == { 1, 2 }

\* the token the csrf endpoint makes up for a request without a valid cookie
FreshToken == 0

\* session.maxAge, in seconds
SessionMaxAge == 90 * 24 * 60 * 60

\* the key the server encrypts session tokens with (NEXTAUTH_SECRET), and
\* the key of somebody who does not know it
ServerSecret == "NEXTAUTH_SECRET"

OtherSecret == "guessed"

\* request paths, as character sequences
PathHome == << "/" >>

PathProfile == << "/", "p", "r", "o", "f", "i", "l", "e" >>

PathProfiles == << "/", "p", "r", "o", "f", "i", "l", "e", "s" >>

PathSettings == << "/", "s", "e", "t", "t", "i", "n", "g", "s" >>

PathDashboard == << "/", "d", "a", "s", "h", "b", "o", "a", "r", "d" >>

PathApiProfile == << "/", "a", "p", "i", "/", "p", "r", "o", "f", "i", "l", "e" >>

Paths == { PathHome, PathProfile, PathProfiles, PathSettings, PathDashboard,
           PathApiProfile }

VARIABLES
    csrfCookie,   \* csrfCookie[c]: the CSRF token in browser c's cookie, or Null
    sessionTok,   \* sessionTok[c]: the session token in browser c's cookie, or Null
    tokens,       \* every session token the server has signed so far
    nSubmits,     \* number of sign-in submissions so far
    lastSubmit,   \* the latest sign-in submission with its outcome
    consumed,     \* nonces carried by a submission that succeeded
    supabaseAdmin,\* whether the store client was initialised at startup
    users,        \* the rows of the profile store's users table
    pc,           \* pc[c]: where browser c's GET /api/profile handler stands
    local,        \* local[c]: userAddress and isNewUser of that handler
    responses,    \* responses[c]: the answers browser c's fetches received
    blobs,        \* the paths of the objects in the avatar bucket
    lastOp,       \* the latest call a profile handler made to the store
    now,          \* the server's clock, in seconds
    signedOut,    \* the session tokens whose browser signed out, and when
    lastRequest,  \* the latest request whose session token a reader examined
    lastLookup,   \* the latest GET /api/users/[handle] with its answer
    page,         \* the state of the public profile page UserHandlePage
    home          \* the state of the Home component in the session browser

authVars == << csrfCookie, sessionTok, tokens, nSubmits, lastSubmit, consumed >>

sessionVars == << now, signedOut, lastRequest >>

storeVars == << supabaseAdmin, users, pc, local, responses, blobs, lastOp >>

clientVars == << page, home >>

vars == << csrfCookie, sessionTok, tokens, nSubmits, lastSubmit, consumed,
           supabaseAdmin, users, pc, local, responses, blobs, lastOp,
           now, signedOut, lastRequest, lastLookup, page, home >>

(***************************************************************************)
(* Credentials.                                                            *)
(***************************************************************************)
SiweMessages ==
    [ kind : {"siwe"}, domain : Domains, address : Addresses, nonce : Nonces ]

\* credentials.message: absent, text that is no JSON, JSON that is no valid
\* SIWE message (a required field missing), or a well-formed message
MessageInputs ==
    { [kind |-> "absent"], [kind |-> "notjson"], [kind |-> "badfields"] }
        \cup SiweMessages

\* a signature is made by the key of `signer` over the bytes of `over`
SignatureOf(signer, over) == [kind |-> "sig", signer |-> signer, over |-> over]

AbsentSignature == [kind |-> "absent"]

\* the nonces for which some browser holds a valid CSRF cookie
issuedNonces == { n \in Nonces : \E c \in Clients : csrfCookie[c] = Some(n) }

(***************************************************************************)
(* siwe: recovery of the signing address, and SiweMessage.verify.          *)
(***************************************************************************)
RecoverAddress(message, signature) ==
    IF signature.over = message THEN signature.signer ELSE GarbageAddr

\* verify(params): each binding is checked only when params carries it
SiweVerify(message, params) ==
    IF params.domain # Null /\ params.domain # Some(message.domain)
        THEN [success |-> FALSE, error |-> "DomainMismatch"]
    ELSE IF params.nonce # Null /\ params.nonce # Some(message.nonce)
        THEN [success |-> FALSE, error |-> "NonceMismatch"]
    ELSE IF RecoverAddress(message, params.signature) # message.address
        THEN [success |-> FALSE, error |-> "SignatureInvalid"]
    ELSE [success |-> TRUE, error |-> "none"]

\* the arguments authorize hands to siwe.verify
VerifyParamsNoNonce(signature, csrfToken) ==
    [signature |-> signature, nonce |-> Null, domain |-> Null]

VerifyParams(signature, csrfToken) ==
    [signature |-> signature, nonce |-> Some(csrfToken), domain |-> Null]

(***************************************************************************)
(* next-auth: getCsrfToken({req}) on the server.  `cookie` is the CSRF     *)
(* cookie of the submitting request (Null when it carries none or a forged *)
(* one), `up` whether the csrf endpoint answered.                          *)
(***************************************************************************)
GetCsrfToken(cookie, up) ==
    IF ~up THEN Null
    ELSE IF cookie # Null /\ cookie[1] \in issuedNonces THEN cookie
    ELSE Some(FreshToken)

(***************************************************************************)
(* authorize(credentials, req)                                             *)
(***************************************************************************)
NullUser == [kind |-> "null"]

Thrown == [kind |-> "throw"]

User(id) == [kind |-> "user", id |-> id]

AuthorizeNoSignatureCheck(message, signature, csrfToken) ==
    IF message.kind = "siwe" /\ signature.kind = "sig" /\ csrfToken # Null
        /\ message.nonce = csrfToken[1]
    THEN User(message.address) ELSE NullUser

Authorize(message, signature, csrfToken) ==
    \* the first log line parses the message outside the try block
    IF message.kind = "notjson" THEN Thrown
    ELSE IF message.kind = "absent" \/ signature.kind = "absent" THEN NullUser
    \* new SiweMessage(JSON.parse(...)) throws inside the try block
    ELSE IF message.kind = "badfields" THEN NullUser
    ELSE IF csrfToken = Null THEN NullUser
    ELSE IF SiweVerify(message, VerifyParams(signature, csrfToken[1])).success
        THEN User(message.address)
    ELSE NullUser

(***************************************************************************)
(* Session token issuance (strategy "jwt") and the session callback.       *)
(***************************************************************************)
\* the JWT next-auth encrypts for the user authorize returned, at time t
IssueToken(user, t) ==
    [ sub |-> user.id, iat |-> t, exp |-> t + SessionMaxAge, key |-> ServerSecret ]

\* a token made by somebody who does not hold the server's key
ForgedToken(address) ==
    [ sub |-> address, iat |-> 0, exp |-> SessionMaxAge + SessionMaxAge,
      key |-> OtherSecret ]

\* a cookie value that is no token at all
CorruptToken == [ sub |-> GarbageAddr, iat |-> 0, exp |-> 0, key |-> "undecodable" ]

\* next-auth/jwt getToken({req, secret}): the claims of the request's session
\* cookie, or null when there is no cookie, it does not decrypt under the
\* server's key, or it has expired
GetTokenNoExpiry(cookie) ==
    IF cookie = Null THEN Null
    ELSE IF cookie[1].key # ServerSecret THEN Null
    ELSE cookie

GetTokenRevoking(cookie) ==
    IF cookie = Null THEN Null
    ELSE IF cookie[1].key # ServerSecret THEN Null
    ELSE IF cookie[1].exp <= now THEN Null
    ELSE IF \E s \in signedOut : s.token = cookie[1] THEN Null
    ELSE cookie

GetToken(cookie) ==
    IF cookie = Null THEN Null
    ELSE IF cookie[1].key # ServerSecret THEN Null
    ELSE IF cookie[1].exp <= now THEN Null
    ELSE cookie

\* what signIn("credentials", {redirect: false}) resolves to in the browser:
\* "CredentialsSignin" when authorize returned null, the message of the
\* exception when authorize threw
SignInResponse(result) ==
    [ ok |-> result.kind = "user",
      status |-> IF result.kind = "user" THEN 200 ELSE 401,
      error |-> IF result.kind = "user" THEN Null
                ELSE IF result.kind = "null" THEN Some("CredentialsSignin")
                ELSE Some("Unexpected token in JSON") ]

\* a session callback that copies the subject into the id alone
SessionOfIdOnly(token) ==
    [user |-> [id |-> Some(token.sub), address |-> Null, handle |-> Null]]

\* callbacks.session: what a reader of the token sees
SessionOf(token) ==
    [user |-> [id |-> Some(token.sub), address |-> Some(token.sub), handle |-> Null]]

\* bookkeeping shared by every submission
Submitted(c, message, signature, csrfToken, result) ==
    /\ nSubmits' = nSubmits + 1
    /\ lastSubmit' = [ client |-> c, message |-> message, signature |-> signature,
                       csrfToken |-> csrfToken, result |-> result ]
    /\ IF result.kind = "user"
          THEN /\ tokens' = tokens \cup { IssueToken(result, now) }
               /\ consumed' = consumed \cup { message.nonce }
          ELSE UNCHANGED << tokens, consumed >>
    /\ UNCHANGED << storeVars, sessionVars, lastLookup, page >>

(***************************************************************************)
(* Home.handleSignIn in browser c with the wallet of address a connected:  *)
(* fetch the CSRF token, build the message for this host, have the wallet  *)
(* sign it, submit {message, signature}.                                   *)
(***************************************************************************)
HandleSignIn(c, a) ==
    /\ nSubmits < MaxSubmits
    /\ sessionTok[c] = Null
    /\ \E n \in Nonces :
        /\ \/ csrfCookie[c] = Some(n)
           \/ csrfCookie[c] = Null /\ n \notin issuedNonces
        /\ LET message == [kind |-> "siwe", domain |-> ExpectedDomain,
                           address |-> a, nonce |-> n]
               signature == SignatureOf(a, message)
               result == Authorize(message, signature, Some(n))
           IN /\ csrfCookie' = [csrfCookie EXCEPT ![c] = Some(n)]
              /\ Submitted(c, message, signature, Some(n), result)
              /\ sessionTok' = [sessionTok EXCEPT ![c] =
                     IF result.kind = "user" THEN Some(IssueToken(result, now)) ELSE @]
    /\ UNCHANGED home

(***************************************************************************)
(* Any other submission to the credentials endpoint: whatever message and  *)
(* signature a caller can produce, sent with a CSRF cookie the server      *)
(* issued, or with none.  No browser of the model receives the session.    *)
(***************************************************************************)
SubmitCredentials(message, signature, cookie, up) ==
    /\ nSubmits < MaxSubmits
    /\ LET csrfToken == GetCsrfToken(cookie, up)
           result == Authorize(message, signature, csrfToken)
       IN Submitted(0, message, signature, csrfToken, result)
    /\ UNCHANGED << csrfCookie, sessionTok, home >>

HostileSubmit ==
    \E message \in MessageInputs, cookie \in {Null} \cup { Some(n) : n \in issuedNonces },
       up \in BOOLEAN :
      \E signature \in {AbsentSignature}
            \cup { SignatureOf(s, m) : s \in Addresses,
                     m \in IF message.kind = "siwe"
                              THEN { [message EXCEPT !.nonce = n] : n \in Nonces }
                              ELSE { message } } :
        SubmitCredentials(message, signature, cookie, up)

(***************************************************************************)
(* The profile store: the users table behind supabaseAdmin.  The table     *)
(* rejects a second row with an address or a non-null handle it already    *)
(* holds.                                                                  *)
(***************************************************************************)
Row(address, handle) ==
    [ address |-> address, handle |-> handle, display_name |-> Null,
      bio |-> Null, avatar_url |-> Null ]

RowsOf(address) == { r \in users : r.address = address }

\* insert(row): refused when it would break a uniqueness constraint
InsertAllowedUnconstrained(row) == TRUE

InsertAllowed(row) ==
    /\ \A r \in users : r.address # row.address
    /\ row.handle # Null => \A r \in users : r.handle # row.handle

\* update({handle}).eq("address", address): refused when another row holds it
UpdateHandleAllowed(address, handle) ==
    \A r \in users : r.handle = handle => r.address = address

\* userAddress.slice(-n)
SliceLast(s, n) == SubSeq(s, IF Len(s) > n THEN Len(s) - n + 1 ELSE 1, Len(s))

HandleSuffixLen == 6

GeneratedHandleWholeAddress(userAddress) == userAddress

GeneratedHandle(userAddress) == SliceLast(userAddress, HandleSuffixLen)

(***************************************************************************)
(* getUserAddressFromToken: the subject of the request's session token.    *)
(***************************************************************************)
GetUserAddressFromTokenUnverified(cookie) ==
    IF cookie = Null THEN Null ELSE Some(cookie[1].sub)

GetUserAddressFromToken(cookie) ==
    LET token == GetToken(cookie)
    IN IF token = Null THEN Null ELSE Some(token[1].sub)

\* what a reader of session tokens did with a request
Request(reader, path, cookie, outcome) ==
    [ reader |-> reader, path |-> path, cookie |-> cookie, at |-> now,
      outcome |-> outcome ]

Response(status, address, profileData, isNewUser) ==
    [ status |-> status, address |-> address,
      handle |-> IF profileData = Null THEN Null ELSE profileData[1].handle,
      isNewUser |-> isNewUser, method |-> "GET" ]

\* a call to the users table or the avatar bucket, made while handling the
\* request that carried `cookie`, on the rows / objects with the given keys
Op(cookie, kind, keys) == [ cookie |-> cookie, kind |-> kind, keys |-> keys ]

NoOp == Op(Null, "none", {})

\* the handler's variables between two awaits
NoLocal ==
    [ cookie |-> Null, userAddress |-> Null, isNewUser |-> FALSE,
      name |-> Null, bio |-> Null, pfpFile |-> Null, avatar_url |-> Null ]

\* the handler returns: its answer reaches the browser, its variables end
Respond(c, response) ==
    /\ responses' = [responses EXCEPT ![c] = Append(@, response)]
    /\ pc' = [pc EXCEPT ![c] = "idle"]
    /\ local' = [local EXCEPT ![c] = NoLocal]

(***************************************************************************)
(* GET /api/profile, up to the answer of the select.  `fault` is a store   *)
(* call that ends with an error of the store's own (a timeout, an outage). *)
(***************************************************************************)
ProfileGetSelect(c, cookie, fault) ==
    /\ pc[c] = "idle"
    /\ Len(responses[c]) < MaxFetches
    /\ LET userAddress == GetUserAddressFromToken(cookie)
       IN /\ lastRequest' = Request("profile", PathApiProfile, cookie,
                                IF userAddress = Null THEN "401" ELSE "authenticated")
          /\ lastOp' = IF userAddress = Null \/ ~supabaseAdmin
                           THEN lastOp
                           ELSE Op(cookie, "select", { userAddress[1] })
          /\ IF userAddress = Null
                  THEN /\ Respond(c, Response(401, Null, Null, FALSE))
                ELSE IF ~supabaseAdmin \/ fault
                  THEN /\ Respond(c, Response(500, userAddress, Null, FALSE))
                ELSE LET rows == RowsOf(userAddress[1])
                         \* maybeSingle: one row, or null (several rows: PGRST116)
                         profileData == IF Cardinality(rows) = 1
                                           THEN Some(CHOOSE r \in rows : TRUE)
                                           ELSE Null
                     IN IF profileData # Null /\ profileData[1].handle # Null
                          THEN /\ Respond(c, Response(200, userAddress, profileData, FALSE))
                          ELSE /\ pc' = [pc EXCEPT ![c] =
                                      IF profileData = Null THEN "insert" ELSE "update"]
                               /\ local' = [local EXCEPT ![c] =
                                      [NoLocal EXCEPT !.cookie = cookie,
                                                      !.userAddress = userAddress[1],
                                                      !.isNewUser = profileData = Null]]
                               /\ UNCHANGED responses
    /\ UNCHANGED << authVars, supabaseAdmin, users, blobs, now, signedOut, lastLookup, clientVars >>

\* the insert of a new user and the answer that follows it
ProfileGetInsert(c, fault) ==
    /\ pc[c] = "insert"
    /\ LET userAddress == local[c].userAddress
           newUser == Row(userAddress, Some(GeneratedHandle(userAddress)))
       IN /\ lastOp' = Op(local[c].cookie, "insert", { newUser.address })
          /\ IF fault \/ ~InsertAllowed(newUser)
            THEN /\ Respond(c, Response(500, Some(userAddress), Null, TRUE))
                 /\ UNCHANGED users
            ELSE /\ users' = users \cup { newUser }
                 /\ Respond(c, Response(200, Some(userAddress), Some(newUser), TRUE))
    /\ UNCHANGED << authVars, supabaseAdmin, blobs, sessionVars, lastLookup, clientVars >>

\* the handle backfill of an existing user and the answer that follows it
ProfileGetUpdate(c, fault) ==
    /\ pc[c] = "update"
    /\ LET userAddress == local[c].userAddress
           generatedHandle == Some(GeneratedHandle(userAddress))
           rows == RowsOf(userAddress)
       IN /\ lastOp' = Op(local[c].cookie, "update", { userAddress })
          /\ IF fault \/ ~UpdateHandleAllowed(userAddress, generatedHandle)
             \/ Cardinality(rows) # 1
            THEN /\ Respond(c, Response(500, Some(userAddress), Null, FALSE))
                 /\ UNCHANGED users
            ELSE LET updatedUser ==
                        [(CHOOSE r \in rows : TRUE) EXCEPT !.handle = generatedHandle]
                 IN /\ users' = (users \ rows) \cup { updatedUser }
                    /\ Respond(c, Response(200, Some(userAddress), Some(updatedUser), FALSE))
    /\ UNCHANGED << authVars, supabaseAdmin, blobs, sessionVars, lastLookup, clientVars >>

(***************************************************************************)
(* POST /api/profile: validation of the form, the avatar in the bucket,    *)
(* the update of the caller's row.                                         *)
(***************************************************************************)
\* profileSchema
NameMaxLen == 100

BioMaxLen == 500

\* a schema without length limits
ValidProfileAny(name, bio) == TRUE

ValidProfile(name, bio) ==
    /\ name # Null => Len(name[1]) <= NameMaxLen
    /\ bio # Null => Len(bio[1]) <= BioMaxLen

MaxPfpSizeBytes == 5 * 1024 * 1024

AllowedPfpTypes == { "image/jpeg", "image/png", "image/gif", "image/webp" }

\* pfpFile.name.split(".").pop(): the text after the last dot, the whole
\* name when it has none
FileExt(name) ==
    LET dots == { i \in 1..Len(name) : name[i] = "." }
        last == IF dots = {} THEN 0 ELSE CHOOSE i \in dots : \A j \in dots : j <= i
    IN SubSeq(name, last + 1, Len(name))

\* `${userAddress}/profile.${fileExt}`
FilePathOfNameAlone(userAddress, fileExt) ==
    << "p", "r", "o", "f", "i", "l", "e", "." >> \o fileExt

FilePath(userAddress, fileExt) ==
    userAddress \o << "/" >> \o << "p", "r", "o", "f", "i", "l", "e", "." >> \o fileExt

\* the four paths removed before an upload
OldPfpPaths(userAddress) ==
    { FilePath(userAddress, e) :
        e \in { << "j", "p", "g" >>, << "p", "n", "g" >>, << "g", "i", "f" >>,
                << "w", "e", "b", "p" >> } }

\* storage.from("post_images").getPublicUrl(filePath)
PublicUrl(filePath) == [ bucket |-> "post_images", path |-> filePath ]

\* s repeated n times
RECURSIVE Repeat(_, _)
Repeat(str, n) ==
    IF n = 0 THEN ""
    ELSE LET half == Repeat(str, n \div 2)
         IN half \o half \o (IF n % 2 = 1 THEN str ELSE "")

NameTooLong == Repeat("n", NameMaxLen + 1)

BioTooLong == Repeat("b", BioMaxLen + 1)

FilePng == [ name |-> << "m", "e", ".", "p", "n", "g" >>, type |-> "image/png", size |-> 1024 ]

FileNoExt == [ name |-> << "a", "v", "a", "t", "a", "r" >>, type |-> "image/jpeg", size |-> MaxPfpSizeBytes ]

FileTooBig == [ name |-> << "b", "i", "g", ".", "p", "n", "g" >>, type |-> "image/png", size |-> MaxPfpSizeBytes + 1 ]

FilePdf == [ name |-> << "c", "v", ".", "p", "d", "f" >>, type |-> "application/pdf", size |-> 1024 ]

\* request bodies: one that is no form data, and forms with their fields
PostForms ==
    { [kind |-> "malformed"] }
        \cup [ kind : {"form"},
               name : { Null, Some("Alice"), Some(NameTooLong) },
               bio : { Null, Some(BioTooLong) },
               pfp : { Null, Some(FilePng), Some(FileNoExt), Some(FileTooBig),
                       Some(FilePdf) } ]

PostResponse(status, address, updatedUser) ==
    [ status |-> status, address |-> address, handle |-> Null,
      isNewUser |-> FALSE, method |-> "POST",
      name |-> IF updatedUser = Null THEN Null ELSE updatedUser[1].display_name,
      bio |-> IF updatedUser = Null THEN Null ELSE updatedUser[1].bio,
      pfp_url |-> IF updatedUser = Null THEN Null ELSE updatedUser[1].avatar_url ]

\* up to the first call to the bucket or the table
ProfilePostStart(c, cookie, form) ==
    /\ pc[c] = "idle"
    /\ Len(responses[c]) < MaxFetches
    /\ LET userAddress == GetUserAddressFromToken(cookie)
           Answer(status) ==
               /\ Respond(c, PostResponse(status, userAddress, Null))
       IN /\ lastRequest' = Request("profile", PathApiProfile, cookie,
                                IF userAddress = Null THEN "401" ELSE "authenticated")
          /\ IF userAddress = Null THEN Answer(401)
             ELSE IF ~supabaseAdmin THEN Answer(500)
             \* req.formData() throws inside the try block
             ELSE IF form.kind = "malformed" THEN Answer(500)
             ELSE IF ~ValidProfile(form.name, form.bio) THEN Answer(400)
             ELSE IF form.pfp # Null /\ form.pfp[1].size > MaxPfpSizeBytes
                THEN Answer(400)
             ELSE IF form.pfp # Null /\ form.pfp[1].type \notin AllowedPfpTypes
                THEN Answer(400)
             ELSE /\ pc' = [pc EXCEPT ![c] = IF form.pfp # Null THEN "remove" ELSE "save"]
                  /\ local' = [local EXCEPT ![c] =
                         [NoLocal EXCEPT !.cookie = cookie,
                                         !.userAddress = userAddress[1],
                                         !.name = form.name,
                                         !.bio = form.bio,
                                         !.pfpFile = form.pfp]]
                  /\ UNCHANGED responses
    /\ UNCHANGED << authVars, supabaseAdmin, users, blobs, lastOp, now, signedOut, lastLookup, clientVars >>

\* remove([...]) of the four old avatar paths; its error is only logged
ProfilePostRemove(c, fault) ==
    /\ pc[c] = "remove"
    /\ LET paths == OldPfpPaths(local[c].userAddress)
       IN /\ lastOp' = Op(local[c].cookie, "remove", paths)
          /\ blobs' = IF fault THEN blobs ELSE blobs \ paths
    /\ pc' = [pc EXCEPT ![c] = "upload"]
    /\ UNCHANGED << authVars, supabaseAdmin, users, local, responses, sessionVars, lastLookup, clientVars >>

\* upload(filePath, pfpFile, {upsert: true}) and getPublicUrl(filePath)
ProfilePostUpload(c, fault) ==
    /\ pc[c] = "upload"
    /\ LET userAddress == local[c].userAddress
           fileExt == FileExt(local[c].pfpFile[1].name)
           filePath == FilePath(userAddress, fileExt)
       IN /\ lastOp' = Op(local[c].cookie, "upload", { filePath })
          /\ IF fault
                THEN /\ Respond(c, PostResponse(500, Some(userAddress), Null))
                     /\ UNCHANGED blobs
                ELSE /\ blobs' = blobs \cup { filePath }
                     /\ local' = [local EXCEPT ![c].avatar_url = Some(PublicUrl(filePath))]
                     /\ pc' = [pc EXCEPT ![c] = "save"]
                     /\ UNCHANGED responses
    /\ UNCHANGED << authVars, supabaseAdmin, users, sessionVars, lastLookup, clientVars >>

\* the save as an upsert: a caller without a row is given one
ProfilePostSaveUpsert(c, fault) ==
    /\ pc[c] = "save"
    /\ LET userAddress == local[c].userAddress
           rows == RowsOf(userAddress)
           old == IF rows = {} THEN Row(userAddress, Null) ELSE CHOOSE r \in rows : TRUE
       IN /\ lastOp' = Op(local[c].cookie, "update", { userAddress })
          /\ IF fault \/ Cardinality(rows) > 1
                THEN /\ Respond(c, PostResponse(500, Some(userAddress), Null))
                     /\ UNCHANGED users
                ELSE LET updatedUser ==
                            [old EXCEPT
                                !.display_name = local[c].name,
                                !.bio = local[c].bio,
                                !.avatar_url = IF local[c].avatar_url # Null
                                                  THEN local[c].avatar_url ELSE @]
                     IN /\ users' = (users \ rows) \cup { updatedUser }
                        /\ Respond(c, PostResponse(200, Some(userAddress), Some(updatedUser)))
    /\ UNCHANGED << authVars, supabaseAdmin, blobs, sessionVars, lastLookup, clientVars >>

\* update(updatePayload).eq("address", userAddress).single() and the answer
ProfilePostSave(c, fault) ==
    /\ pc[c] = "save"
    /\ LET userAddress == local[c].userAddress
           rows == RowsOf(userAddress)
       IN /\ lastOp' = Op(local[c].cookie, "update", { userAddress })
          \* single(): an error unless exactly one row was updated
          /\ IF fault \/ Cardinality(rows) # 1
                THEN /\ Respond(c, PostResponse(500, Some(userAddress), Null))
                     /\ UNCHANGED users
                ELSE LET updatedUser ==
                            [(CHOOSE r \in rows : TRUE) EXCEPT
                                !.display_name = local[c].name,
                                !.bio = local[c].bio,
                                !.avatar_url = IF local[c].avatar_url # Null
                                                  THEN local[c].avatar_url ELSE @]
                     IN /\ users' = (users \ rows) \cup { updatedUser }
                        /\ Respond(c, PostResponse(200, Some(userAddress), Some(updatedUser)))
    /\ UNCHANGED << authVars, supabaseAdmin, blobs, sessionVars, lastLookup, clientVars >>

(***************************************************************************)
(* GET /api/users/[handle]: the public lookup of a profile by its handle.  *)
(***************************************************************************)
\* handleSchema = z.string().min(1)
HandleSchemaAny(handle) == TRUE

HandleSchemaOk(handle) == Len(handle) >= 1

\* the JSON of a found user
PublicProfile(data) ==
    [ address |-> data.address, name |-> data.display_name,
      pfp_url |-> data.avatar_url, bio |-> data.bio, handle |-> data.handle ]

UserByHandleGet(handle, fault) ==
    /\ LET rows == { r \in users : r.handle = Some(handle) }
           Answer(status, body) ==
               lastLookup' = [ handle |-> handle, fault |-> fault,
                               status |-> status, body |-> body ]
       IN IF ~HandleSchemaOk(handle) THEN Answer(400, Null)
          ELSE IF ~supabaseAdmin THEN Answer(500, Null)
          \* the select answers with an error, or throws; maybeSingle
          \* answers with an error when several rows match
          ELSE IF fault \/ Cardinality(rows) > 1 THEN Answer(500, Null)
          ELSE IF rows = {} THEN Answer(404, Null)
          ELSE Answer(200, Some(PublicProfile(CHOOSE r \in rows : TRUE)))
    /\ UNCHANGED << authVars, storeVars, sessionVars, home >>

\* the path parameter: empty, the handle of an address, a handle nobody has
LookupHandles ==
    { << >>, SliceLast(AddrA, HandleSuffixLen), SliceLast(AddrC, HandleSuffixLen),
      << "n", "o", "b", "o", "d", "y" >> }

\* a row whose owner has edited the profile and uploaded an avatar
EditedRow ==
    [ Row(AddrA, Some(GeneratedHandle(AddrA))) EXCEPT
        !.display_name = Some("Alice"),
        !.avatar_url = Some(PublicUrl(FilePath(AddrA, << "p", "n", "g" >>))) ]

(***************************************************************************)
(* middleware(req): the route guard in front of every page request.        *)
(***************************************************************************)
\* path.startsWith(p)
StartsWithExactly(path, p) == path = p

StartsWith(path, p) ==
    Len(path) >= Len(p) /\ SubSeq(path, 1, Len(p)) = p

ProtectedPaths == { PathProfile, PathSettings, PathDashboard }

\* config.matcher: every path except those under /api, /_next/static,
\* /_next/image and /favicon.ico
MatcherExcluded ==
    { << "/", "a", "p", "i" >>,
      << "/", "_", "n", "e", "x", "t", "/", "s", "t", "a", "t", "i", "c" >>,
      << "/", "_", "n", "e", "x", "t", "/", "i", "m", "a", "g", "e" >>,
      << "/", "f", "a", "v", "i", "c", "o", "n", ".", "i", "c", "o" >> }

MatcherMatches(path) == \A p \in MatcherExcluded : ~StartsWith(path, p)

\* NextResponse.redirect("/") or NextResponse.next()
Middleware(path, cookie) ==
    IF \E p \in ProtectedPaths : StartsWith(path, p)
        THEN IF GetToken(cookie) = Null THEN "redirect" ELSE "next"
        ELSE "next"

\* a page request with the given session cookie; where the matcher does not
\* apply the request goes on without the guard
PageRequest(path, cookie) ==
    /\ lastRequest' = Request("middleware", path, cookie,
                              IF MatcherMatches(path) THEN Middleware(path, cookie)
                                                      ELSE "next")
    /\ UNCHANGED << authVars, storeVars, now, signedOut, lastLookup, clientVars >>

(***************************************************************************)
(* Home.handleSignOut: signOut({redirect: false}).  The server clears the  *)
(* browser's session cookie; events.signOut only writes a log line.        *)
(***************************************************************************)
SignOut(c) ==
    /\ sessionTok[c] # Null
    /\ sessionTok' = [sessionTok EXCEPT ![c] = Null]
    /\ signedOut' = signedOut \cup { [token |-> sessionTok[c][1], at |-> now] }
    /\ UNCHANGED << csrfCookie, tokens, nSubmits, lastSubmit, consumed,
                    storeVars, now, lastRequest, lastLookup, page >>

\* the clock moves on by a second or by a whole session lifetime; the
\* instants looked at are the first seconds of each lifetime
Tick(d) ==
    /\ now + d <= SessionMaxAge + MaxLate
    /\ (now + d) % SessionMaxAge <= MaxLate
    /\ now' = now + d
    /\ UNCHANGED << authVars, storeVars, signedOut, lastRequest, lastLookup, clientVars >>

\* the session cookies a request can carry: none, a copy of any token the
\* server ever issued (a browser's own cookie is one), a forged one, an
\* undecodable one
CookieInputs ==
    { Null, Some(CorruptToken), Some(ForgedToken(AddrA)) }
        \cup { Some(t) : t \in tokens }

(***************************************************************************)
(* UserHandlePage: the public profile page at /<handle>.  The page keeps   *)
(* profile, isLoading, error and retryCount; an effect on [handle,         *)
(* retryCount] calls fetchProfile, a second effect on [handle] resets      *)
(* retryCount and error.  Each call of fetchProfile keeps the handle and   *)
(* the retryCount of the render that made it.                              *)
(***************************************************************************)
MAX_RETRIES == 3

\* fetches a page issues in one run
MaxPageFetches == 6

\* the route parameter: the handle of an address, a handle nobody has
PageHandles ==
    { SliceLast(AddrA, HandleSuffixLen), << "n", "o", "b", "o", "d", "y" >> }

\* no page is open.  issued counts the fetches made so far, attempts those
\* made since the handle was set, succeeded tells whether one of them for
\* the current handle was answered ok, fixed whether the component has had
\* one handle since it was mounted
NoPage ==
    [ handle |-> Null, profile |-> Null, isLoading |-> FALSE, error |-> Null,
      retryCount |-> 0, inflight |-> {}, issued |-> 0, attempts |-> 0,
      succeeded |-> FALSE, fixed |-> TRUE ]

\* fetchProfile() up to its await: setIsLoading(true) and the request
FetchProfile(p) ==
    [p EXCEPT !.isLoading = TRUE,
              !.inflight = @ \cup { [ n |-> p.issued + 1, handle |-> p.handle[1],
                                      retryCount |-> p.retryCount ] },
              !.issued = @ + 1,
              !.attempts = @ + 1]

\* the first render of the component for `handle` and its effects
Mounted(handle, issued) ==
    FetchProfile([NoPage EXCEPT !.handle = Some(handle), !.isLoading = TRUE,
                                !.issued = issued])

\* retryCount < MAX_RETRIES - 1, on the retryCount of the call's render
ShouldRetryOnceMore(retryCount) == retryCount < MAX_RETRIES

ShouldRetry(retryCount) == retryCount < MAX_RETRIES - 1

\* fetchProfile() after its await, for the call f answered with res
AfterFetch(p, f, res) ==
    LET q == [p EXCEPT !.inflight = @ \ { f }]
    IN IF res.status = 200
          THEN [q EXCEPT !.profile = res.body,
                         !.error = Null,
                         !.retryCount = 0,
                         !.isLoading = FALSE,
                         !.succeeded = @ \/ p.handle = Some(f.handle)]
       ELSE IF ShouldRetry(f.retryCount)
          THEN [q EXCEPT !.retryCount = @ + 1]
       ELSE [q EXCEPT !.error = Some([ attempts |-> MAX_RETRIES,
                                       status |-> res.status ]),
                      !.profile = Null,
                      !.isLoading = FALSE]

\* a request of the page is answered by GET /api/users/[handle]; the state
\* is set and, retryCount having changed, the effect fetches again
PageFetchSettles(fault) ==
    \E f \in page.inflight :
        /\ UserByHandleGet(f.handle, fault)
        /\ LET q == AfterFetch(page, f, lastLookup')
               r == IF q.retryCount # page.retryCount THEN FetchProfile(q) ELSE q
           IN /\ r.issued <= MaxPageFetches
              /\ page' = r

\* the route changes to another handle.  The router either mounts the
\* component anew or renders the mounted one with the new parameter; in the
\* latter case the first effect fetches with the retryCount of that render,
\* the second resets retryCount and error, and a changed retryCount makes
\* the first effect fetch again
PageNavigate(handle, remount) ==
    /\ page.handle # Null
    /\ page.handle # Some(handle)
    /\ LET kept == [page EXCEPT !.handle = Some(handle), !.attempts = 0,
                                !.succeeded = FALSE, !.fixed = FALSE]
           reset == [FetchProfile(kept) EXCEPT !.retryCount = 0, !.error = Null]
           r == IF remount THEN Mounted(handle, page.issued)
                ELSE IF page.retryCount # 0 THEN FetchProfile(reset)
                ELSE reset
       IN /\ r.issued <= MaxPageFetches
          /\ page' = r
    /\ UNCHANGED << authVars, storeVars, sessionVars, lastLookup, home >>

(***************************************************************************)
(* Home: the component state of the sign-in page in the session browser.   *)
(***************************************************************************)
NoHome ==
    [ status |-> "unauthenticated", session |-> Null, isSigningIn |-> FALSE,
      signInError |-> Null, inFlight |-> 0, effectPending |-> FALSE,
      path |-> PathHome, lastExit |-> "none" ]

\* the "Sign In With Ethereum" button is clicked.  It is rendered while the
\* session is not authenticated and is disabled while isSigningIn; `ready`
\* tells whether useAccount gave the handler an address and a chain id
HomeSignInClick(ready) ==
    /\ home.status = "unauthenticated"
    /\ home.path = PathHome
    /\ ~home.isSigningIn
    /\ home' = IF ~ready
                  THEN [home EXCEPT
                          !.signInError = Some("Please connect your wallet first."),
                          !.lastExit = "noWallet"]
                  ELSE [home EXCEPT !.isSigningIn = TRUE,
                                    !.signInError = Null,
                                    !.inFlight = @ + 1,
                                    !.lastExit = "started"]
    /\ UNCHANGED << authVars, storeVars, sessionVars, lastLookup, page >>

\* an attempt whose catch block runs but whose finally block is left out
HomeSignInThrowsNoFinally(cause) ==
    /\ home.inFlight > 0
    /\ home' = [home EXCEPT !.signInError = Some(cause),
                            !.inFlight = @ - 1,
                            !.lastExit = "thrown"]
    /\ UNCHANGED << authVars, storeVars, sessionVars, lastLookup, page >>

\* getCsrfToken() gives nothing or the wallet refuses to sign: the error is
\* thrown inside the try block, caught, and the finally block runs
HomeSignInThrows(cause) ==
    /\ home.inFlight > 0
    /\ home' = [home EXCEPT !.signInError = Some(cause),
                            !.isSigningIn = FALSE,
                            !.inFlight = @ - 1,
                            !.lastExit = "thrown"]
    /\ UNCHANGED << authVars, storeVars, sessionVars, lastLookup, page >>

\* the attempt gets its CSRF token and its signature, and signIn answers;
\* `up` as in GetCsrfToken.  On ok the session of useSession is updated
HomeSignInSubmits(c, a, up) ==
    /\ home.inFlight > 0
    /\ nSubmits < MaxSubmits
    /\ sessionTok[c] = Null
    /\ \E n \in Nonces :
        /\ \/ csrfCookie[c] = Some(n)
           \/ csrfCookie[c] = Null /\ n \notin issuedNonces
        /\ LET message == [kind |-> "siwe", domain |-> ExpectedDomain,
                           address |-> a, nonce |-> n]
               signature == SignatureOf(a, message)
               result == Authorize(message, signature, IF up THEN Some(n) ELSE Null)
               signInResponse == SignInResponse(result)
           IN /\ csrfCookie' = [csrfCookie EXCEPT ![c] = Some(n)]
              /\ Submitted(c, message, signature, IF up THEN Some(n) ELSE Null, result)
              /\ sessionTok' = [sessionTok EXCEPT ![c] =
                     IF result.kind = "user" THEN Some(IssueToken(result, now)) ELSE @]
              /\ home' =
                   IF signInResponse.error # Null
                      THEN [home EXCEPT !.signInError = signInResponse.error,
                                        !.isSigningIn = FALSE,
                                        !.inFlight = @ - 1,
                                        !.lastExit = "error"]
                      ELSE [home EXCEPT !.status = "authenticated",
                                        !.session = Some(SessionOf(IssueToken(result, now))),
                                        !.effectPending = TRUE,
                                        !.isSigningIn = FALSE,
                                        !.inFlight = @ - 1,
                                        !.lastExit = "ok"]

\* useSession fetches the session again (on focus, on a poll)
HomeSessionRefetch(c) ==
    /\ home.status = "authenticated"
    /\ ~home.effectPending
    /\ LET token == GetToken(sessionTok[c])
       IN home' = [home EXCEPT
                     !.status = IF token = Null THEN "unauthenticated"
                                                ELSE "authenticated",
                     !.session = IF token = Null THEN Null
                                                 ELSE Some(SessionOf(token[1])),
                     !.effectPending = TRUE]
    /\ UNCHANGED << authVars, storeVars, sessionVars, lastLookup, page >>

\* the effect on [status, session, router]: router.push(`/${handle}`) when
\* the session is authenticated and holds a handle, nothing otherwise
HomeSessionEffect ==
    /\ home.effectPending
    /\ home' = [home EXCEPT
                  !.effectPending = FALSE,
                  !.path = IF /\ home.status = "authenticated"
                              /\ home.session # Null
                              /\ home.session[1].user.handle # Null
                              THEN << "/" >> \o home.session[1].user.handle[1]
                              ELSE @]
    /\ UNCHANGED << authVars, storeVars, sessionVars, lastLookup, page >>

\* handleSignOut
HomeSignOut(c) ==
    /\ home.status = "authenticated"
    /\ SignOut(c)
    /\ home' = [home EXCEPT !.status = "unauthenticated", !.session = Null,
                            !.effectPending = TRUE]

NoLookup == [ handle |-> << >>, fault |-> FALSE, status |-> 0, body |-> Null ]

NoRequest ==
    [ reader |-> "none", path |-> PathHome, cookie |-> Null, at |-> 0,
      outcome |-> "none" ]

NoSubmit == [ client |-> 0, message |-> [kind |-> "absent"],
              signature |-> AbsentSignature, csrfToken |-> Null, result |-> NullUser ]

Init ==
    /\ csrfCookie = [c \in Clients |-> Null]
    /\ sessionTok = [c \in Clients |-> Null]
    /\ tokens = {}
    /\ nSubmits = 0
    /\ lastSubmit = NoSubmit
    /\ consumed = {}
    /\ supabaseAdmin \in BOOLEAN
    \* an empty table, or one row from before handles existed
    /\ users \in { {} } \cup { { Row(a, Null) } : a \in Addresses }
    /\ pc = [c \in Clients |-> "idle"]
    /\ local = [c \in Clients |-> NoLocal]
    /\ responses = [c \in Clients |-> << >>]
    /\ blobs = {}
    /\ lastOp = NoOp
    /\ now = 0
    /\ signedOut = {}
    /\ lastRequest = NoRequest
    /\ lastLookup = NoLookup
    /\ page = NoPage
    /\ home = NoHome

NextAuth ==
    \/ \E c \in Clients, a \in Addresses : HandleSignIn(c, a)
    \/ HostileSubmit

\* the sign-in protocol alone, the store left as it starts
InitAuth == Init /\ supabaseAdmin /\ users = {}

SpecAuth == InitAuth /\ [][NextAuth]_vars

Next ==
    \/ \E c \in Clients, a \in Addresses : HandleSignIn(c, a)
    \/ \E c \in Clients, fault \in BOOLEAN : ProfileGetSelect(c, sessionTok[c], fault)
    \/ \E c \in Clients, fault \in BOOLEAN : ProfileGetInsert(c, fault)
    \/ \E c \in Clients, fault \in BOOLEAN : ProfileGetUpdate(c, fault)

Spec == Init /\ [][Next]_vars

\* the same system with a store that is configured and answers every call;
\* a handler that has been started runs to its answer
InitReliable == Init /\ supabaseAdmin

NextReliable ==
    \/ \E c \in Clients, a \in Addresses : HandleSignIn(c, a)
    \/ \E c \in Clients : ProfileGetSelect(c, sessionTok[c], FALSE)
    \/ \E c \in Clients : ProfileGetInsert(c, FALSE)
    \/ \E c \in Clients : ProfileGetUpdate(c, FALSE)

FairSpec ==
    /\ InitReliable
    /\ [][NextReliable]_vars
    /\ \A c \in Clients : WF_vars(ProfileGetInsert(c, FALSE))
    /\ \A c \in Clients : WF_vars(ProfileGetUpdate(c, FALSE))

\* the browser whose requests the specifications below follow in detail
SessionBrowser == CHOOSE c \in Clients : \A d \in Clients : c <= d

\* the profile endpoint used by signed-in browsers, each with a wallet of
\* its own: every browser fetches, one of them also edits its profile, the
\* bucket and the table failing at will during an edit
InitProfile == Init /\ supabaseAdmin /\ users \in { {}, { Row(AddrC, Null) } }

NextProfile ==
    \/ HandleSignIn(SessionBrowser, AddrA)
    \/ \E c \in Clients \ { SessionBrowser } : HandleSignIn(c, AddrC)
    \/ \E c \in Clients : ProfileGetSelect(c, sessionTok[c], FALSE)
    \/ \E c \in Clients : ProfileGetInsert(c, FALSE)
    \/ \E c \in Clients : ProfileGetUpdate(c, FALSE)
    \/ \E form \in PostForms :
           ProfilePostStart(SessionBrowser, sessionTok[SessionBrowser], form)
    \/ \E fault \in BOOLEAN : ProfilePostRemove(SessionBrowser, fault)
    \/ \E fault \in BOOLEAN : ProfilePostUpload(SessionBrowser, fault)
    \/ \E fault \in BOOLEAN : ProfilePostSave(SessionBrowser, fault)

SpecProfile == InitProfile /\ [][NextProfile]_vars

\* the public lookup beside a browser that signs in and fetches its profile;
\* the table starts empty, with a row from before handles existed, or with
\* the row of an address that has edited its profile
InitLookup ==
    /\ csrfCookie = [c \in Clients |-> Null]
    /\ sessionTok = [c \in Clients |-> Null]
    /\ tokens = {}
    /\ nSubmits = 0
    /\ lastSubmit = NoSubmit
    /\ consumed = {}
    /\ supabaseAdmin \in BOOLEAN
    /\ users \in { {}, { Row(AddrC, Null) }, { EditedRow } }
    /\ pc = [c \in Clients |-> "idle"]
    /\ local = [c \in Clients |-> NoLocal]
    /\ responses = [c \in Clients |-> << >>]
    /\ blobs = { r.avatar_url[1].path : r \in { u \in users : u.avatar_url # Null } }
    /\ lastOp = NoOp
    /\ now = 0
    /\ signedOut = {}
    /\ lastRequest = NoRequest
    /\ lastLookup = NoLookup
    /\ page = NoPage
    /\ home = NoHome

NextLookup ==
    \/ \E a \in Addresses : HandleSignIn(SessionBrowser, a)
    \/ ProfileGetSelect(SessionBrowser, sessionTok[SessionBrowser], FALSE)
    \/ ProfileGetInsert(SessionBrowser, FALSE)
    \/ ProfileGetUpdate(SessionBrowser, FALSE)
    \/ \E handle \in LookupHandles, fault \in BOOLEAN :
           UserByHandleGet(handle, fault) /\ UNCHANGED page

SpecLookup == InitLookup /\ [][NextLookup]_vars

\* one session of one browser and one wallet over time: sign-in, sign-out,
\* the clock, and the readers of session tokens answering requests that
\* carry any cookie.  The store answers every call and the wallet's account
\* has been resolved before, so that a profile fetch ends with its select;
\* the edits sent fail validation, so that one ends where it starts.
InitSession ==
    \* the browser was given its CSRF cookie on an earlier visit
    /\ csrfCookie = [c \in Clients |->
                        IF c = SessionBrowser THEN Some(CHOOSE n \in Nonces : TRUE)
                                              ELSE Null]
    /\ sessionTok = [c \in Clients |-> Null]
    /\ tokens = {}
    /\ nSubmits = 0
    /\ lastSubmit = NoSubmit
    /\ consumed = {}
    /\ supabaseAdmin = TRUE
    /\ users = { Row(AddrA, Some(GeneratedHandle(AddrA))) }
    /\ pc = [c \in Clients |-> "idle"]
    /\ local = [c \in Clients |-> NoLocal]
    /\ responses = [c \in Clients |-> << >>]
    /\ blobs = {}
    /\ lastOp = NoOp
    /\ now = 0
    /\ signedOut = {}
    /\ lastRequest = NoRequest
    /\ lastLookup = NoLookup
    /\ page = NoPage
    /\ home = NoHome

NextSession ==
    \/ tokens = {} /\ HandleSignIn(SessionBrowser, AddrA)
    \/ SignOut(SessionBrowser) /\ UNCHANGED home
    \/ \E d \in { 1, SessionMaxAge } : Tick(d)
    \/ \E path \in Paths, cookie \in CookieInputs : PageRequest(path, cookie)
    \/ \E cookie \in CookieInputs : ProfileGetSelect(SessionBrowser, cookie, FALSE)
    \/ \E cookie \in CookieInputs :
           ProfilePostStart(SessionBrowser, cookie,
                            [kind |-> "form", name |-> Some(NameTooLong),
                             bio |-> Null, pfp |-> Null])

SpecSession == InitSession /\ [][NextSession]_vars

(***************************************************************************)
(* Properties of the sign-in protocol (checked under SpecAuth).            *)
(***************************************************************************)
\* the submission made by the step under consideration
SubmitStep == nSubmits' # nSubmits

\* C1: authorize returns an identity, and a session token is issued, only
\* if message and signature are present, a CSRF token was obtained and the
\* signature over the message recovers the claimed address; the identity is
\* then that address.  A message claiming A signed by B's key yields none.
C1_IdentityOnlyIfAllChecksPass ==
    [][ SubmitStep =>
          LET s == lastSubmit' IN
          /\ s.result.kind = "user" =>
                /\ s.message.kind = "siwe"
                /\ s.signature.kind = "sig"
                /\ s.csrfToken # Null
                /\ s.signature.over = s.message
                /\ s.signature.signer = s.message.address
                /\ s.result.id = s.message.address
          /\ tokens' # tokens =>
                /\ s.result.kind = "user"
                /\ \E t \in tokens' :
                       /\ tokens' = tokens \cup { t }
                       /\ t.sub = s.message.address
          /\ sessionTok' # sessionTok => s.result.kind = "user"
          /\ ( /\ s.message.kind = "siwe"
               /\ s.signature.kind = "sig"
               /\ s.signature.signer # s.message.address )
             => s.result.kind # "user" /\ tokens' = tokens
      ]_vars

\* a submission succeeded and its session token exists
C1_Witness ==
    /\ lastSubmit.result.kind = "user"
    /\ \E t \in tokens : t.sub = lastSubmit.message.address
    /\ lastSubmit.signature.signer = lastSubmit.message.address

\* C2: a submission whose message nonce differs from the CSRF token the
\* server derives from the request is rejected and issues no session, also
\* when the signature is valid for the message.
C2_NonceMismatchRejected ==
    [][ ( /\ SubmitStep
          /\ lastSubmit'.message.kind = "siwe"
          /\ lastSubmit'.csrfToken # Some(lastSubmit'.message.nonce) )
        => /\ lastSubmit'.result.kind # "user"
           /\ tokens' = tokens
           /\ sessionTok' = sessionTok
      ]_vars

\* a validly signed message was submitted with the cookie of another nonce
C2_Witness ==
    /\ lastSubmit.message.kind = "siwe"
    /\ lastSubmit.signature = SignatureOf(lastSubmit.message.address, lastSubmit.message)
    /\ lastSubmit.csrfToken # Null
    /\ lastSubmit.csrfToken[1] \in Nonces
    /\ lastSubmit.csrfToken[1] # lastSubmit.message.nonce
    /\ lastSubmit.result = NullUser

\* C3: once a submission carrying nonce n has succeeded, every later
\* submission carrying n fails.
C3_NonceSingleUse ==
    [][ ( /\ SubmitStep
          /\ lastSubmit'.message.kind = "siwe"
          /\ lastSubmit'.message.nonce \in consumed )
        => lastSubmit'.result.kind # "user"
      ]_vars

\* C4: a submission whose message domain is not the server's host fails,
\* whatever its signature and nonce.
C4_DomainBinding ==
    ( /\ lastSubmit.message.kind = "siwe"
      /\ lastSubmit.message.domain # ExpectedDomain )
    => lastSubmit.result.kind # "user"

(***************************************************************************)
(* Properties of session issuance and account resolution.                  *)
(***************************************************************************)
HasHandle(address) == \E r \in users : r.address = address /\ r.handle # Null

\* C5: no session token exists for an address whose account has not been
\* resolved: every issued token's subject has a row with a handle.
C5_NoTokenWithoutResolvedHandle ==
    \A t \in tokens : HasHandle(t.sub)

\* C6: a browser that runs the sign-in flow gets success and a session
\* whose claims hold the signer's address and a non-null handle.
C6_SessionHasAddressAndHandle ==
    lastSubmit.client \in Clients =>
        /\ lastSubmit.result.kind = "user"
        /\ sessionTok[lastSubmit.client] # Null
        /\ LET user == SessionOf(sessionTok[lastSubmit.client][1]).user
           IN /\ user.address = Some(lastSubmit.signature.signer)
              /\ user.handle # Null

AnswersOf(c) == { responses[c][i] : i \in 1..Len(responses[c]) }

C8_ConcurrentFirstFetchesAgree ==
    \A c1, c2 \in Clients : \A r1 \in AnswersOf(c1), r2 \in AnswersOf(c2) :
        ( /\ r1.isNewUser /\ r2.isNewUser
          /\ r1.address = r2.address
          /\ r1.status = 200 )
        => r2.status = 200 /\ r2.handle = r1.handle

\* the last n characters of a character sequence
LastChars(a, n) == [ i \in 1..n |-> a[Len(a) - n + i] ]

C10_AuthenticatedEventuallyHasHandle ==
    \A a \in Addresses :
        (\E t \in tokens : t.sub = a) ~> HasHandle(a)


\* C11: when an address whose last six characters are already another
\* address's handle has had its profile fetch answered by a working store,
\* it has a row with a non-null handle different from the other address's.
C11_HandleCollisionTolerated ==
    \A c \in Clients : \A r \in AnswersOf(c) : \A other \in users :
        ( /\ r.address # Null
          /\ other.address # r.address[1]
          /\ other.handle = Some(LastChars(r.address[1], 6)) )
        => \E row \in RowsOf(r.address[1]) :
              row.handle # Null /\ row.handle # other.handle


(***************************************************************************)
(* Properties of sessions, their readers and the sign-in outcome.          *)
(***************************************************************************)
\* the cookie holds a token under the server's key that has not expired at t
PresentsValidToken(cookie, t) ==
    /\ cookie # Null
    /\ cookie[1].key = "NEXTAUTH_SECRET"
    /\ t < cookie[1].exp

\* the path begins, character by character, with /profile, /settings or
\* /dashboard
HasProtectedPrefix(path) ==
    \E p \in { PathProfile, PathSettings, PathDashboard } :
        \A i \in 1..Len(p) : i <= Len(path) /\ path[i] = p[i]

\* C12: every page request ends in exactly one of allowed (next) or denied
\* (redirect to "/"); it is denied iff its path begins with a protected
\* path and its token is missing or invalid.
C12_RouteGuard ==
    lastRequest.reader = "middleware" =>
        /\ lastRequest.outcome \in { "next", "redirect" }
        /\ lastRequest.outcome = "redirect"
              <=> ( /\ HasProtectedPrefix(lastRequest.path)
                    /\ ~PresentsValidToken(lastRequest.cookie, lastRequest.at) )

\* /profiles was requested without any cookie and the guard redirected
C12_Witness ==
    /\ lastRequest.reader = "middleware"
    /\ lastRequest.path = PathProfiles
    /\ lastRequest.cookie = Null
    /\ lastRequest.outcome = "redirect"

\* the reader turned the request away / let it through
Rejected(request) == request.outcome \in { "redirect", "401" }

Accepted(request) == request.outcome \in { "next", "authenticated" }

\* the request reached a reader that examines the session token
TokenExamined(request) ==
    \/ request.reader = "profile"
    \/ request.reader = "middleware" /\ HasProtectedPrefix(request.path)

LastStatusIs(c, st) ==
    /\ Len(responses[c]) > 0
    /\ responses[c][Len(responses[c])].status = st

\* C14: a request whose token is expired, corrupt, forged or missing is
\* turned away like one without a token: the profile API answers 401, the
\* guard redirects, the handler ends there and no row or blob is read or
\* written.
C14_InvalidTokenIsNoToken ==
    [][ ( /\ lastRequest' # lastRequest
          /\ TokenExamined(lastRequest')
          /\ ~PresentsValidToken(lastRequest'.cookie, now) )
        => /\ Rejected(lastRequest')
           /\ lastRequest'.reader = "middleware" => lastRequest'.outcome = "redirect"
           /\ lastRequest'.reader = "profile" =>
                 \E c \in Clients :
                     /\ Len(responses'[c]) = Len(responses[c]) + 1
                     /\ responses'[c][Len(responses'[c])].status = 401
           /\ pc' = pc
           /\ UNCHANGED << users, blobs, lastOp >>
      ]_vars

\* POST /api/profile answered 401 to a token made under another key
C14_Witness ==
    /\ lastRequest.reader = "profile"
    /\ lastRequest.cookie = Some(ForgedToken(AddrA))
    /\ lastRequest.outcome = "401"
    /\ \E c \in Clients :
          /\ LastStatusIs(c, 401)
          /\ responses[c][Len(responses[c])].method = "POST"

\* C15: authorize returns an identity or null for every credential
\* payload; it never throws.
C15_AuthorizeNeverThrows ==
    lastSubmit.result.kind \in { "user", "null" }

\* C16: any two failed submissions, whatever made each fail, give the
\* browser the same outcome.
C16_UniformFailure ==
    [][ ( /\ SubmitStep
          /\ nSubmits > 0
          /\ lastSubmit.result.kind # "user"
          /\ lastSubmit'.result.kind # "user" )
        => SignInResponse(lastSubmit'.result) = SignInResponse(lastSubmit.result)
      ]_vars

\* C17: a session read from a valid token of an address that has a handle
\* in the store exposes that handle.
C17_SessionExposesResolvedHandle ==
    \A c \in Clients : \A r \in users :
        ( /\ GetToken(sessionTok[c]) # Null
          /\ r.address = sessionTok[c][1].sub
          /\ r.handle # Null )
        => SessionOf(sessionTok[c][1]).user.handle = r.handle

\* C20: signing out revokes nothing: a copy of the token presented after
\* the sign-out and before the token's expiry is accepted by the route
\* guard and by the profile API.
C20_SignOutDoesNotRevoke ==
    \A s \in signedOut :
        ( /\ TokenExamined(lastRequest)
          /\ lastRequest.cookie = Some(s.token)
          /\ lastRequest.at > s.at
          /\ lastRequest.at < s.token.exp )
        => Accepted(lastRequest)

\* the profile API served a token its browser had signed out of before
C20_Witness ==
    \E s \in signedOut :
        /\ lastRequest.reader = "profile"
        /\ lastRequest.cookie = Some(s.token)
        /\ lastRequest.at > s.at
        /\ lastRequest.outcome = "authenticated"
        /\ sessionTok[SessionBrowser] = Null


(***************************************************************************)
(* Properties of the profile endpoints.                                    *)
(***************************************************************************)
\* the blob path lies in the directory named by the address
UnderDirectoryOf(address, path) ==
    /\ Len(path) > Len(address) + 1
    /\ \A i \in 1..Len(address) : path[i] = address[i]
    /\ path[Len(address) + 1] = "/"

\* C18: every select, insert and update GET and POST /api/profile make is
\* keyed by the address in the subject of the caller's token, and every
\* blob they remove or upload lies under that address; a row holds a
\* handle, a name or an avatar, and a blob exists, only for an address that
\* has authenticated.
C18_OwnerOnly ==
    /\ lastOp.kind # "none" =>
          /\ lastOp.cookie # Null
          /\ lastOp.cookie[1] \in tokens
          /\ lastOp.kind \in { "select", "insert", "update" }
                => lastOp.keys = { lastOp.cookie[1].sub }
          /\ lastOp.kind \in { "remove", "upload" }
                => \A path \in lastOp.keys :
                       UnderDirectoryOf(lastOp.cookie[1].sub, path)
    /\ \A r \in users :
          (r.handle # Null \/ r.display_name # Null \/ r.avatar_url # Null)
          => \E t \in tokens : t.sub = r.address
    /\ \A path \in blobs : \E t \in tokens : UnderDirectoryOf(t.sub, path)

\* an avatar was uploaded while another address had its own row
C18_Witness ==
    /\ lastOp.kind = "upload"
    /\ blobs # {}
    /\ \E r \in users : r.address # lastOp.cookie[1].sub


\* C19: GET /api/users/[handle] answers 400 to an empty handle, 500 when
\* the store is not configured or answers with an error, 404 when no row
\* has the handle, and otherwise 200 with the fields of the one row whose
\* handle is the argument; it never changes the store.
C19_ProfileByHandle ==
    [][ lastLookup' # lastLookup =>
          LET q == lastLookup'
              matches == { r \in users : r.handle # Null /\ r.handle[1] = q.handle }
          IN /\ UNCHANGED << users, blobs, supabaseAdmin >>
             /\ q.status \in { 200, 400, 404, 500 }
             /\ q.status = 400 <=> q.handle = << >>
             /\ q.status = 500 <=> ( /\ q.handle # << >>
                                     /\ ~supabaseAdmin \/ q.fault )
             /\ q.status = 404 <=> ( /\ q.handle # << >>
                                     /\ supabaseAdmin /\ ~q.fault
                                     /\ matches = {} )
             /\ q.status = 200 =>
                   \E r \in matches :
                       /\ matches = { r }
                       /\ q.body = Some([ address |-> r.address,
                                          name |-> r.display_name,
                                          pfp_url |-> r.avatar_url,
                                          bio |-> r.bio,
                                          handle |-> r.handle ])
      ]_vars

\* the lookup of c0ffee found the edited profile of its address
C19_Witness ==
    /\ lastLookup.status = 200
    /\ lastLookup.handle = LastChars(AddrA, 6)
    /\ lastLookup.body[1].address = AddrA
    /\ lastLookup.body[1].name = Some("Alice")


(***************************************************************************)
(* The earlier version of GET /api/profile kept in route.ts.  Its select   *)
(* and insert steps act as the current ones; its handle backfill logs an   *)
(* update error and goes on with the row it had read.                      *)
(***************************************************************************)
EarlierProfileGetUpdate(c, fault) ==
    /\ pc[c] = "update"
    /\ LET userAddress == local[c].userAddress
           generatedHandle == Some(GeneratedHandle(userAddress))
           rows == RowsOf(userAddress)
       IN /\ lastOp' = Op(local[c].cookie, "update", { userAddress })
          /\ IF fault \/ ~UpdateHandleAllowed(userAddress, generatedHandle)
             \/ Cardinality(rows) # 1
            THEN /\ Respond(c, Response(200, Some(userAddress),
                                        Some(Row(userAddress, Null)), FALSE))
                 /\ UNCHANGED users
            ELSE LET updatedUser ==
                        [(CHOOSE r \in rows : TRUE) EXCEPT !.handle = generatedHandle]
                 IN /\ users' = (users \ rows) \cup { updatedUser }
                    /\ Respond(c, Response(200, Some(userAddress), Some(updatedUser), FALSE))
    /\ UNCHANGED << authVars, supabaseAdmin, blobs, sessionVars, lastLookup, clientVars >>

NextEarlier ==
    \/ \E c \in Clients, a \in Addresses : HandleSignIn(c, a)
    \/ \E c \in Clients : ProfileGetSelect(c, sessionTok[c], FALSE)
    \/ \E c \in Clients : ProfileGetInsert(c, FALSE)
    \/ \E c \in Clients, fault \in BOOLEAN : EarlierProfileGetUpdate(c, fault)

SpecEarlier == InitReliable /\ [][NextEarlier]_vars

\* C21: every profile fetch answered 200 for an address leaves a row of that
\* address with a non-null handle in the store; a row with a null handle is
\* either given the generated handle or the fetch reports an error.
C21_BackfillOrError ==
    \A c \in Clients : \A r \in AnswersOf(c) :
        (r.method = "GET" /\ r.status = 200) => HasHandle(r.address[1])


\* every operation on accounts side by side: one browser signs in, fetches
\* and edits its profile while the public lookup is called, the table and
\* the bucket failing at will; the table starts empty or with a row from
\* before handles existed
InitFrame ==
    /\ InitReliable
    /\ users \in { {}, { Row(AddrA, Null) }, { Row(AddrC, Null) } }

NextFrame ==
    \/ HandleSignIn(SessionBrowser, AddrA)
    \/ \E fault \in BOOLEAN :
           ProfileGetSelect(SessionBrowser, sessionTok[SessionBrowser], fault)
    \/ \E fault \in BOOLEAN : ProfileGetInsert(SessionBrowser, fault)
    \/ \E fault \in BOOLEAN : ProfileGetUpdate(SessionBrowser, fault)
    \/ \E form \in PostForms :
           ProfilePostStart(SessionBrowser, sessionTok[SessionBrowser], form)
    \/ \E fault \in BOOLEAN : ProfilePostRemove(SessionBrowser, fault)
    \/ \E fault \in BOOLEAN : ProfilePostUpload(SessionBrowser, fault)
    \/ \E fault \in BOOLEAN : ProfilePostSave(SessionBrowser, fault)
    \/ \E handle \in LookupHandles, fault \in BOOLEAN :
           UserByHandleGet(handle, fault) /\ UNCHANGED page

SpecFrame == InitFrame /\ [][NextFrame]_vars

\* the step is one of browser c's profile POST: it starts one, continues one
\* or answers one
PostStep(c) ==
    \/ pc[c] \in { "remove", "upload", "save" }
    \/ pc'[c] \in { "remove", "upload", "save" }
    \/ /\ Len(responses'[c]) > Len(responses[c])
       /\ responses'[c][Len(responses'[c])].method = "POST"

HandleColumn(rows) == { << r.address, r.handle >> : r \in rows }

\* C22: no step of sign-in, profile GET, profile POST or public lookup
\* removes a row or an address, changes a handle that is set, and no step
\* of a profile POST adds a row or writes the handle column.
C22_AccountFrame ==
    [][ /\ { r.address : r \in users } \subseteq { r.address : r \in users' }
        /\ Cardinality(users') >= Cardinality(users)
        /\ \A r \in users : r.handle # Null =>
               \A q \in users' : q.address = r.address => q.handle = r.handle
        /\ \A c \in Clients : PostStep(c) =>
               /\ Cardinality(users') = Cardinality(users)
               /\ HandleColumn(users') = HandleColumn(users) ]_vars

\* a profile POST has rewritten the row of an address that holds a handle
C22_Witness ==
    \E c \in Clients : \E a \in AnswersOf(c) : \E r \in users :
        /\ a.method = "POST" /\ a.status = 200
        /\ a.address = Some(r.address)
        /\ r.handle # Null /\ r.display_name # Null


\* C23: the session read from a browser's valid token holds an address, and
\* address, id and the token's subject are one value; for the browser whose
\* sign-in was the latest that value is the address the submitted signature
\* was verified for.
C23_SessionAddressIsSubject ==
    \A c \in Clients :
        GetToken(sessionTok[c]) # Null =>
            LET token == GetToken(sessionTok[c])[1]
                user == SessionOf(token).user
            IN /\ user.address # Null
               /\ user.address = user.id
               /\ user.id = Some(token.sub)
               /\ lastSubmit.client = c =>
                     /\ lastSubmit.result.kind = "user"
                     /\ token.sub = lastSubmit.message.address
                     /\ token.sub = RecoverAddress(lastSubmit.message,
                                                   lastSubmit.signature)

\* a browser holds the session of the sign-in it has just made
C23_Witness ==
    \E c \in Clients :
        /\ lastSubmit.client = c
        /\ GetToken(sessionTok[c]) # Null
        /\ SessionOf(sessionTok[c][1]).user.address = Some(lastSubmit.signature.signer)


\* the public profile page open on a handle, over a table that holds the row
\* of an address which has edited its profile; the lookup fails at will
InitPage ==
    /\ csrfCookie = [c \in Clients |-> Null]
    /\ sessionTok = [c \in Clients |-> Null]
    /\ tokens = {}
    /\ nSubmits = 0
    /\ lastSubmit = NoSubmit
    /\ consumed = {}
    /\ supabaseAdmin = TRUE
    /\ users = { EditedRow }
    /\ pc = [c \in Clients |-> "idle"]
    /\ local = [c \in Clients |-> NoLocal]
    /\ responses = [c \in Clients |-> << >>]
    /\ blobs = { EditedRow.avatar_url[1].path }
    /\ lastOp = NoOp
    /\ now = 0
    /\ signedOut = {}
    /\ lastRequest = NoRequest
    /\ lastLookup = NoLookup
    /\ page \in { Mounted(handle, 0) : handle \in PageHandles }
    /\ home = NoHome

NextPage ==
    \/ \E fault \in BOOLEAN : PageFetchSettles(fault)
    \/ \E handle \in PageHandles, remount \in BOOLEAN : PageNavigate(handle, remount)

SpecPage == InitPage /\ [][NextPage]_vars

\* C24: on a page that has had one handle since it was mounted and whose
\* fetches for it have all failed, at most MAX_RETRIES fetches are made,
\* isLoading is true while one is under way, and when none is the page has
\* made exactly MAX_RETRIES, isLoading is false, profile is null and the
\* error is set.
C24_BoundedRetry ==
    (page.handle # Null /\ page.fixed /\ ~page.succeeded) =>
        /\ page.attempts <= MAX_RETRIES
        /\ page.inflight # {} => page.isLoading
        /\ page.inflight = {} =>
              /\ page.attempts = MAX_RETRIES
              /\ ~page.isLoading
              /\ page.profile = Null
              /\ page.error # Null

\* the third fetch has failed and the page has stopped
C24_Witness ==
    /\ page.handle # Null /\ page.fixed /\ ~page.succeeded
    /\ page.inflight = {}
    /\ page.attempts = MAX_RETRIES
    /\ page.error # Null /\ ~page.isLoading

\* C25: once a fetch for the current handle has succeeded, and until the
\* handle changes, the profile is set, isLoading is false and no fetch for
\* the handle is under way.
C25_SettlesAfterSuccess ==
    (page.handle # Null /\ page.succeeded) =>
        /\ page.profile # Null
        /\ ~page.isLoading
        /\ \A f \in page.inflight : Some(f.handle) # page.handle


\* the home page in the session browser: sign-in attempts, the session of
\* useSession and its effect, sign-out, and the browser's profile fetches.
\* The store answers every call; the table starts empty or with the row of
\* the wallet's address, from before handles existed or resolved on an
\* earlier visit.  A started handler
\* runs to its answer, a pending effect runs, the session is fetched again
\* and again.
InitHome ==
    /\ csrfCookie = [c \in Clients |-> Null]
    /\ sessionTok = [c \in Clients |-> Null]
    /\ tokens = {}
    /\ nSubmits = 0
    /\ lastSubmit = NoSubmit
    /\ consumed = {}
    /\ supabaseAdmin = TRUE
    /\ users \in { {}, { Row(AddrA, Null) },
                 { Row(AddrA, Some(GeneratedHandle(AddrA))) } }
    /\ pc = [c \in Clients |-> "idle"]
    /\ local = [c \in Clients |-> NoLocal]
    /\ responses = [c \in Clients |-> << >>]
    /\ blobs = {}
    /\ lastOp = NoOp
    /\ now = 0
    /\ signedOut = {}
    /\ lastRequest = NoRequest
    /\ lastLookup = NoLookup
    /\ page = NoPage
    /\ home = NoHome

NextHome ==
    \/ \E ready \in BOOLEAN : HomeSignInClick(ready)
    \/ \E cause \in { "Failed to fetch CSRF token for SIWE nonce.",
                      "User rejected the request." } : HomeSignInThrows(cause)
    \/ \E up \in BOOLEAN : HomeSignInSubmits(SessionBrowser, AddrA, up)
    \/ HomeSessionRefetch(SessionBrowser)
    \/ HomeSessionEffect
    \/ HomeSignOut(SessionBrowser)
    \/ ProfileGetSelect(SessionBrowser, sessionTok[SessionBrowser], FALSE)
    \/ ProfileGetInsert(SessionBrowser, FALSE)
    \/ ProfileGetUpdate(SessionBrowser, FALSE)

SpecHome ==
    /\ InitHome
    /\ [][NextHome]_vars
    /\ WF_vars(HomeSessionEffect)
    /\ WF_vars(HomeSessionRefetch(SessionBrowser))
    /\ WF_vars(ProfileGetInsert(SessionBrowser, FALSE))
    /\ WF_vars(ProfileGetUpdate(SessionBrowser, FALSE))

\* C26: after a sign-in that succeeded on the home page, the page is
\* eventually redirected away from / to the handle's page.
C26_RedirectAfterSignIn ==
    (home.status = "authenticated" /\ home.lastExit = "ok") ~> (home.path # PathHome)

\* C27: isSigningIn is true exactly while an attempt is between its start
\* and its end, at most one attempt is under way, every end of an attempt
\* leaves isSigningIn false, and a click without a wallet sets the error and
\* leaves isSigningIn false.
C27_SigningInState ==
    [][ /\ home'.isSigningIn = (home'.inFlight > 0)
        /\ home'.inFlight <= 1
        /\ home'.inFlight < home.inFlight => ~home'.isSigningIn
        /\ (home'.lastExit = "noWallet" /\ home.lastExit # "noWallet") =>
              /\ ~home.isSigningIn /\ ~home'.isSigningIn
              /\ home'.inFlight = home.inFlight
              /\ home'.signInError # Null
      ]_vars

\* an attempt has ended with a thrown error or a sign-in error
C27_Witness ==
    /\ home.lastExit \in { "thrown", "error" }
    /\ ~home.isSigningIn
    /\ home.inFlight = 0
    /\ home.signInError # Null


\* the step answers a profile POST of browser c with an error
PostErrorStep(c) ==
    /\ Len(responses'[c]) > Len(responses[c])
    /\ responses'[c][Len(responses'[c])].method = "POST"
    /\ responses'[c][Len(responses'[c])].status # 200

AvatarsStored(rows, objects) ==
    \A r \in rows : r.avatar_url # Null => r.avatar_url[1].path \in objects

\* C28: a profile POST answered with an error leaves the rows as they were,
\* and when it has been answered every non-null avatar_url still names an
\* object the bucket holds.
C28_ErrorLeavesProfileIntact ==
    [][ \A c \in Clients : PostErrorStep(c) =>
            /\ users' = users
            /\ AvatarsStored(users', blobs') ]_vars

\* the avatar objects the bucket holds under the directory of an address
AvatarsOf(address) == { b \in blobs : UnderDirectoryOf(address, b) }

\* every profile POST so far was answered 200 and none is under way
OnlySuccessfulPosts ==
    /\ \A c \in Clients : pc[c] = "idle"
    /\ \A c \in Clients : \A a \in AnswersOf(c) : a.method = "POST" => a.status = 200

\* C29: after profile POSTs with image files that all succeeded, the bucket
\* holds at most one avatar object under the caller's address.
C29_AtMostOneAvatar ==
    OnlySuccessfulPosts => \A a \in Addresses : Cardinality(AvatarsOf(a)) <= 1

\* what the claim calls an invalid request
InvalidForm(form) ==
    /\ form.kind # "malformed"
    /\ \/ form.name # Null /\ Len(form.name[1]) > 100
       \/ form.bio # Null /\ Len(form.bio[1]) > 500
       \/ form.pfp # Null /\ form.pfp[1].size > 5 * 1024 * 1024
       \/ form.pfp # Null /\ form.pfp[1].type \notin
              { "image/jpeg", "image/png", "image/gif", "image/webp" }

\* C30: an authenticated profile POST whose name, bio or file breaks a limit
\* is answered 400 before any call to the bucket or the table; only a request
\* with a file reaches the bucket, and the save of a request without a file
\* leaves the bucket and every avatar_url as they were.
C30_ValidatesBeforeWrites ==
    [][ \A c \in Clients :
          /\ \A form \in PostForms :
                ( /\ InvalidForm(form)
                  /\ GetUserAddressFromToken(sessionTok[c]) # Null
                  /\ supabaseAdmin
                  /\ ProfilePostStart(c, sessionTok[c], form) )
                => /\ Len(responses'[c]) = Len(responses[c]) + 1
                   /\ responses'[c][Len(responses'[c])].status = 400
                   /\ pc'[c] = "idle"
                   /\ blobs' = blobs /\ users' = users /\ lastOp' = lastOp
          /\ pc'[c] \in { "remove", "upload" } => local'[c].pfpFile # Null
          /\ (pc[c] = "save" /\ pc'[c] # "save" /\ local[c].pfpFile = Null) =>
                /\ blobs' = blobs
                /\ \A r \in users : \A q \in users' :
                       q.address = r.address => q.avatar_url = r.avatar_url
      ]_vars

\* an edit without a file was saved and an invalid one was answered 400
C30_Witness ==
    \E c \in Clients :
        /\ \E a \in AnswersOf(c) : a.method = "POST" /\ a.status = 400
        /\ \E a \in AnswersOf(c) : a.method = "POST" /\ a.status = 200
                                      /\ a.pfp_url = Null /\ a.name # Null

=============================================================================
